---- MODULE Spec2Model ----
(***************************************************************************)
(* Model of scripts/delete_training_data_utils.js: the cascade that strips *)
(* facility contact references (cleanContactPersons), the audit files it   *)
(* writes (writeDocsToFile) and the tombstone write (deleteDocs).          *)
(*                                                                         *)
(* The store (PouchDB/CouchDB) and the file system are the environment:    *)
(* every request the code issues is answered later by a separate step      *)
(* that may succeed or fail.                                               *)
(***************************************************************************)
EXTENDS Naturals, Sequences, FiniteSets

\* ------------------------------------------------------------------ bounds
NumPersons == 2
NumFacilities == 2

\* ------------------------------------------------------------- documents
PersonIds == {<<"P", n>> : n \in 1..NumPersons}
FacilityIds == {<<"F", n>> : n \in 1..NumFacilities}
DocIds == PersonIds \cup FacilityIds

\* A facility with no contact field (the field was deleted or never set).
NoContact == <<"none", 0>>

\* A person document as an external producer created it.
PersonDoc(id) == [_id |-> id, type |-> "person", contact |-> NoContact, _deleted |-> FALSE]

\* A facility document, with its contact reference c.
FacilityDoc(id, c) == [_id |-> id, type |-> "facility", contact |-> c, _deleted |-> FALSE]

\* ----------------------------------------------------------------- files
\* Mutant: the file name lacks the person's id.
AuditPath_shared(personId) == <<"cleaned_facilities", <<"none", 0>>>>

\* The audit file of a subject, and the file a script passes itself.
AuditPath(personId) == <<"cleaned_facilities", personId>>
OtherPath == <<"other", NoContact>>
Paths == {AuditPath(p) : p \in PersonIds} \cup {OtherPath}

\* JSON.stringify(docsList): the text holds the documents as they are at
\* the call; later changes to the objects do not reach it.
Stringify(docsList) == [json |-> docsList]

\* The documents a complete file's text parses to.
Parse(text) == text.json

\* No text at all.
NoText == [json |-> <<>>]

\* A path nothing was written to.
NoFile == [state |-> "absent", text |-> NoText]

VARIABLES
    store,        \* the database: document id -> stored document
    files,        \* the log directory: path -> file
    phase,        \* "idle" | "snapshot" | "clean" | "delete" | "ended"
    dryrun,       \* the run's dryrun argument
    personsList,  \* the run's list of person documents (objects in memory)
    pc,           \* per subject: "chained" | "query" | "write" | "bulk" | "resolved" | "rejected"
    mem,          \* per subject: the facility documents held in memory
    written,      \* per subject: the text handed to fs.writeFile
    ret,          \* per subject: what removeContact returned (NoValue before)
    reason,       \* per subject: the rejection reason (NoValue before)
    outcome,      \* how the run's promise chain settled, and with what
    trace,        \* the requests issued by the run, in issue order
    store0,       \* the store when the run started
    xw,           \* the text of the script's own writeDocsToFile call
    hist,         \* what is remembered of the runs before this one
    util          \* the call of a utility function under way, or its result

\* The variables of a pipeline run.
runVars == <<store, files, phase, dryrun, personsList, pc, mem, written,
             ret, reason, outcome, trace, store0, xw>>

vars == <<store, files, phase, dryrun, personsList, pc, mem, written,
          ret, reason, outcome, trace, store0, xw, hist, util>>

NoValue == [kind |-> "none"]
Pending == [kind |-> "pending"]

Subjects == DOMAIN pc

\* ---------------------------------------------------------------- helpers
\* The elements of set S of document ids as a sequence in id order (a view
\* returns its rows for one key in document-id order).
RECURSIVE InIdOrder(_)
InIdOrder(S) ==
    IF S = {} THEN <<>>
    ELSE LET m == CHOOSE x \in S : \A y \in S : x[2] <= y[2]
         IN <<m>> \o InIdOrder(S \ {m})

\* Sequences over set S without repetition.
RECURSIVE DistinctSeqs(_)
DistinctSeqs(S) ==
    {<<>>} \cup UNION {{<<x>> \o s : s \in DistinctSeqs(S \ {x})} : x \in S}

getDocsFromRows(rows) == [i \in DOMAIN rows |-> rows[i].doc]

\* ------------------------------------------------------------ environment
\* db.query('medic/facilities_by_contact', {key: [personId], include_docs}):
\* one row per live facility whose contact is personId.
facilities_by_contact(db, personId) ==
    LET hits == {f \in FacilityIds : db[f].contact = personId /\ ~db[f]._deleted}
        ids == InIdOrder(hits)
    IN [rows |-> [i \in DOMAIN ids |-> [id |-> ids[i], doc |-> db[ids[i]]]]]

\* db.bulkDocs(docs) when the store accepts the documents whose ids are in
\* ok and reports a per-document error for the others: the new store.
bulkDocsStore(db, docs, ok) ==
    [id \in DocIds |->
        IF id \in ok /\ \E i \in DOMAIN docs : docs[i]._id = id
        THEN docs[CHOOSE i \in DOMAIN docs : docs[i]._id = id]
        ELSE db[id]]

\* ... and the result it resolves with: one entry per document, in order.
bulkDocsResult(docs, ok) ==
    [i \in DOMAIN docs |-> [id |-> docs[i]._id, ok |-> docs[i]._id \in ok]]

Ids(docs) == {docs[i]._id : i \in DOMAIN docs}

\* ------------------------------------------------------------------- Init
Init ==
    /\ \E c \in [FacilityIds -> PersonIds \cup {NoContact}] :
          store = [id \in DocIds |->
                     IF id \in PersonIds THEN PersonDoc(id) ELSE FacilityDoc(id, c[id])]
    /\ files = [p \in Paths |-> NoFile]
    /\ phase = "idle"
    /\ dryrun = FALSE
    /\ personsList = <<>>
    /\ pc = <<>>
    /\ mem = <<>>
    /\ written = <<>>
    /\ ret = <<>>
    /\ reason = <<>>
    /\ outcome = NoValue
    /\ trace = <<>>
    /\ store0 = store
    /\ xw = NoText
    /\ hist = [runs |-> 0, store |-> store, files |-> files,
               list |-> <<>>, accepted |-> FALSE]
    /\ util = [op |-> "none"]

\* ------------------------------------------------------------ values
Undefined == [kind |-> "undefined"]
Value(v) == [kind |-> "value", value |-> v]
Resolved(v) == [kind |-> "resolved", value |-> v]
Rejected(e) == [kind |-> "rejected", reason |-> e]

\* The errors the environment raises, and the message writeDocsToFile
\* rejects with.
QueryError == [msg |-> "query failed", path |-> NoContact]
BulkError == [msg |-> "bulkDocs failed", path |-> NoContact]
IOError == [msg |-> "EIO", path |-> NoContact]
TypeError == [msg |-> "then is not a function", path |-> NoContact]

\* A request as issued: the operation, the subject it is for (0: none),
\* its key or path, and the documents sent, as text.
Event(op, i, key, docs) == [op |-> op, subject |-> i, key |-> key, body |-> Stringify(docs)]

\* Mutant: the empty list is written too.
writeDocsToFile_writes_always(docsList) == TRUE

\* ------------------------------------------------------- writeDocsToFile
\* Whether writeDocsToFile(filepath, docsList) calls fs.writeFile: an
\* empty list is returned at once, with no file written.
writeDocsToFile_writes(docsList) == Len(docsList) # 0

\* reject('Couldn\'t write to file' + filepath, err): a promise's reject
\* takes one argument, so the reason is the message; err is dropped.
writeDocsToFile_reason(filepath, err) == [msg |-> "Couldn't write to file", path |-> filepath]

\* fs.writeFile has truncated the file and not yet written all of it.
FsTruncated(fs, filepath) == [fs EXCEPT ![filepath] = [state |-> "partial", text |-> NoText]]

\* fs.writeFile has called back without error: the file holds the text.
FsWritten(fs, filepath, text) == [fs EXCEPT ![filepath] = [state |-> "complete", text |-> text]]

\* Mutant: every callback runs at once (the subjects are not chained).
CanStart_concurrent(i) == TRUE

\* Mutant: only the first person's callback is chained.
CanStart_first(i) == i = 1

\* Mutant: a rejected subject is skipped and the chain goes on.
CanStart_continue(i) == IF i = 1 THEN TRUE ELSE pc[i - 1] \in {"resolved", "rejected"}

\* ---------------------------------------------------- cleanContactPersons
\* The chain of cleanContactPersons: the callback of subject i runs once
\* the promise of subject i-1 has resolved (a rejected promise skips every
\* later then-callback).
CanStart(i) == IF i = 1 THEN TRUE ELSE pc[i - 1] = "resolved"

\* Mutant: the facility is marked deleted as well.
removeContact_strip_deleted(facilitiesList) ==
    [i \in DOMAIN facilitiesList |->
        [facilitiesList[i] EXCEPT !.contact = NoContact, !._deleted = TRUE]]

\* Mutant: the contact field is left in place.
removeContact_strip_kept(facilitiesList) == facilitiesList

\* removeContact's _.each: delete facility.contact on every facility.
removeContact_strip(facilitiesList) ==
    [i \in DOMAIN facilitiesList |-> [facilitiesList[i] EXCEPT !.contact = NoContact]]

\* Mutant: the dryrun test is missing.
removeContact_writes_always(dry) == TRUE

\* removeContact's test of dryrun: whether db.bulkDocs is called.
removeContact_writes(dry) == ~dry

\* Mutant: the marker is not set.
deleteDocs_docsWithDeleteField_unmarked(docs) == docs

\* Mutant: a stub holding only the id and the marker is written.
deleteDocs_docsWithDeleteField_stub(docs) ==
    [i \in DOMAIN docs |-> [_id |-> docs[i]._id, type |-> "", contact |-> NoContact,
                            _deleted |-> TRUE]]

\* deleteDocs's _.map: doc._deleted = true on every document.
deleteDocs_docsWithDeleteField(docs) ==
    [i \in DOMAIN docs |-> [docs[i] EXCEPT !._deleted = TRUE]]

\* deleteDocs's test of dryrun: whether db.bulkDocs is called.
deleteDocs_writes(dry) == ~dry

\* The persons a selection query can return: the live ones.
LivePersons == {p \in PersonIds : ~store[p]._deleted}

\* cleanContactPersons(db, dryrun, logdir, personsList): the chain is
\* built, one then-callback per person; nothing is issued yet.
cleanContactPersons(docs) ==
    /\ phase' = "clean"
    /\ personsList' = docs
    /\ pc' = [i \in DOMAIN docs |-> "chained"]
    /\ mem' = [i \in DOMAIN docs |-> <<>>]
    /\ written' = [i \in DOMAIN docs |-> NoText]
    /\ ret' = [i \in DOMAIN docs |-> NoValue]
    /\ reason' = [i \in DOMAIN docs |-> NoValue]

\* A script runs the pipeline on the person documents it selected (ids):
\* it snapshots them with writeDocsToFile, then calls cleanContactPersons
\* on the list writeDocsToFile gives back, then deleteDocs.
Script(dry, ids) ==
    /\ phase = "idle"
    /\ dryrun' = dry
    /\ outcome' = Pending
    /\ store0' = store
    /\ LET docsList == [i \in DOMAIN ids |-> store[ids[i]]]
       IN IF writeDocsToFile_writes(docsList)
          THEN /\ phase' = "snapshot"
               /\ personsList' = docsList
               /\ xw' = Stringify(docsList)
               /\ trace' = <<Event("writeFile", 0, OtherPath, docsList)>>
               /\ UNCHANGED <<pc, mem, written, ret, reason>>
          ELSE /\ cleanContactPersons(docsList)
               /\ UNCHANGED <<xw, trace>>
    /\ UNCHANGED <<store, files, hist, util>>

\* fs.writeFile of the script's snapshot is under way.
FsProgressScript ==
    /\ phase = "snapshot"
    /\ files[OtherPath].state # "partial"
    /\ files' = FsTruncated(files, OtherPath)
    /\ UNCHANGED <<store, phase, dryrun, personsList, pc, mem, written,
                   ret, reason, outcome, trace, store0, xw, hist, util>>

\* The script's snapshot is written: writeDocsToFile resolves with the
\* list and cleanContactPersons is called on it.
writeDocsToFile_resolveScript ==
    /\ phase = "snapshot"
    /\ files' = FsWritten(files, OtherPath, xw)
    /\ cleanContactPersons(personsList)
    /\ UNCHANGED <<store, dryrun, outcome, trace, store0, xw, hist, util>>

\* The script's snapshot fails: the pipeline rejects, nothing else runs.
writeDocsToFile_rejectScript ==
    /\ phase = "snapshot"
    /\ phase' = "ended"
    /\ outcome' = Rejected(writeDocsToFile_reason(OtherPath, IOError))
    /\ UNCHANGED <<store, files, dryrun, personsList, pc, mem, written, ret,
                   reason, trace, store0, xw, hist, util>>

\* The then-callback of subject i: cleanContactPerson calls isContactFor,
\* which issues the facilities_by_contact query.
isContactFor(i) ==
    /\ phase = "clean"
    /\ pc[i] = "chained"
    /\ CanStart(i)
    /\ pc' = [pc EXCEPT ![i] = "query"]
    /\ trace' = Append(trace, Event("query", i, personsList[i]._id, <<>>))
    /\ UNCHANGED <<store, files, phase, dryrun, personsList, mem, written,
                   ret, reason, outcome, store0, xw, hist, util>>

\* Mutant: a dry run stops before the audit.
cleanContactPerson_skips_dry(facilities) == Len(facilities) = 0 \/ dryrun

\* cleanContactPerson's test of the facilities found: none, nothing to do.
cleanContactPerson_skips(facilities) == Len(facilities) = 0

\* Mutant: removeContact is called at once instead of being chained after
\* writeDocsToFile, so the bulk write is issued while the file is written.
cleanContactPerson_then_nowait(i) ==
    /\ pc[i] = "query"
    /\ LET facilities == getDocsFromRows(facilities_by_contact(store, personsList[i]._id).rows)
           filepath == AuditPath(personsList[i]._id)
       IN IF Len(facilities) = 0
          THEN /\ pc' = [pc EXCEPT ![i] = "resolved"]
               /\ ret' = [ret EXCEPT ![i] = Undefined]
               /\ UNCHANGED <<mem, written, trace>>
          ELSE /\ mem' = [mem EXCEPT ![i] = removeContact_strip(facilities)]
               /\ written' = [written EXCEPT ![i] = Stringify(facilities)]
               /\ pc' = [pc EXCEPT ![i] = "bulk"]
               /\ trace' = trace \o <<Event("writeFile", i, filepath, facilities),
                                      Event("bulkDocs", i, personsList[i]._id,
                                            removeContact_strip(facilities))>>
               /\ UNCHANGED ret
    /\ UNCHANGED <<store, files, phase, dryrun, personsList, reason,
                   outcome, store0, xw, hist, util>>

\* The query answers. No facility: cleanContactPerson returns undefined.
\* Otherwise writeDocsToFile is called on the facilities.
cleanContactPerson_then(i) ==
    /\ pc[i] = "query"
    /\ LET facilities == getDocsFromRows(facilities_by_contact(store, personsList[i]._id).rows)
           filepath == AuditPath(personsList[i]._id)
       IN IF cleanContactPerson_skips(facilities)
          THEN /\ pc' = [pc EXCEPT ![i] = "resolved"]
               /\ ret' = [ret EXCEPT ![i] = Undefined]
               /\ UNCHANGED <<mem, written, trace>>
          ELSE /\ mem' = [mem EXCEPT ![i] = facilities]
               /\ IF writeDocsToFile_writes(facilities)
                  THEN /\ pc' = [pc EXCEPT ![i] = "write"]
                       /\ written' = [written EXCEPT ![i] = Stringify(facilities)]
                       /\ trace' = Append(trace, Event("writeFile", i, filepath, facilities))
                       /\ UNCHANGED ret
                  ELSE \* writeDocsToFile returned the list itself, which
                       \* has no then: the callback throws a TypeError.
                       /\ pc' = [pc EXCEPT ![i] = "rejected"]
                       /\ UNCHANGED <<written, trace, ret>>
    /\ reason' = [reason EXCEPT ![i] =
                     IF pc'[i] = "rejected" THEN TypeError ELSE reason[i]]
    /\ UNCHANGED <<store, files, phase, dryrun, personsList,
                   outcome, store0, xw, hist, util>>

\* The query fails: isContactFor logs and rethrows, cleanContactPerson
\* logs and rethrows.
isContactFor_catch(i) ==
    /\ pc[i] = "query"
    /\ pc' = [pc EXCEPT ![i] = "rejected"]
    /\ reason' = [reason EXCEPT ![i] = QueryError]
    /\ UNCHANGED <<store, files, phase, dryrun, personsList, mem, written,
                   ret, outcome, trace, store0, xw, hist, util>>

\* fs.writeFile is under way: the file is truncated, not yet whole.
FsProgress(i) ==
    /\ pc[i] = "write"
    /\ files[AuditPath(personsList[i]._id)].state # "partial"
    /\ files' = FsTruncated(files, AuditPath(personsList[i]._id))
    /\ UNCHANGED <<store, phase, dryrun, personsList, pc, mem, written,
                   ret, reason, outcome, trace, store0, xw, hist, util>>

\* removeContact(db, dryrun, person, facilitiesList), called with the list
\* writeDocsToFile resolved with.
removeContact(i) ==
    /\ mem' = [mem EXCEPT ![i] = removeContact_strip(mem[i])]
    /\ IF removeContact_writes(dryrun)
       THEN /\ pc' = [pc EXCEPT ![i] = "bulk"]
            /\ trace' = Append(trace, Event("bulkDocs", i, personsList[i]._id,
                                            removeContact_strip(mem[i])))
            /\ UNCHANGED ret
       ELSE /\ pc' = [pc EXCEPT ![i] = "resolved"]
            /\ ret' = [ret EXCEPT ![i] = Value(personsList[i])]
            /\ UNCHANGED trace

\* fs.writeFile calls back without error: writeDocsToFile resolves with
\* the list and removeContact runs.
writeDocsToFile_resolve(i) ==
    /\ pc[i] = "write"
    /\ files' = FsWritten(files, AuditPath(personsList[i]._id), written[i])
    /\ removeContact(i)
    /\ UNCHANGED <<store, phase, dryrun, personsList, written, reason,
                   outcome, store0, xw, hist, util>>

\* Mutant: the callback notes the error and resolves all the same.
writeDocsToFile_reject_ignored(i) ==
    /\ pc[i] = "write"
    /\ reason' = [reason EXCEPT ![i] =
                     writeDocsToFile_reason(AuditPath(personsList[i]._id), IOError)]
    /\ removeContact(i)
    /\ UNCHANGED <<store, files, phase, dryrun, personsList, written,
                   outcome, store0, xw, hist, util>>

\* fs.writeFile calls back with an error: writeDocsToFile rejects, and
\* removeContact is not called. The file stays as the failed write left it.
writeDocsToFile_reject(i) ==
    /\ pc[i] = "write"
    /\ pc' = [pc EXCEPT ![i] = "rejected"]
    /\ reason' = [reason EXCEPT ![i] =
                     writeDocsToFile_reason(AuditPath(personsList[i]._id), IOError)]
    /\ UNCHANGED <<store, files, phase, dryrun, personsList, mem, written,
                   ret, outcome, trace, store0, xw, hist, util>>

\* db.bulkDocs(facilitiesList) resolves: the store took the documents in
\* ok and reports an error for each other one; removeContact logs the
\* result and returns person.
removeContact_then(i, ok) ==
    /\ pc[i] = "bulk"
    /\ ok \subseteq Ids(mem[i])
    /\ store' = bulkDocsStore(store, mem[i], ok)
    /\ pc' = [pc EXCEPT ![i] = "resolved"]
    /\ ret' = [ret EXCEPT ![i] = Value(personsList[i])]
    /\ UNCHANGED <<files, phase, dryrun, personsList, mem, written,
                   reason, outcome, trace, store0, xw, hist, util>>

\* db.bulkDocs(facilitiesList) rejects: cleanContactPerson logs and rethrows.
cleanContactPerson_catch(i) ==
    /\ pc[i] = "bulk"
    /\ pc' = [pc EXCEPT ![i] = "rejected"]
    /\ reason' = [reason EXCEPT ![i] = BulkError]
    /\ UNCHANGED <<store, files, phase, dryrun, personsList, mem, written,
                   ret, outcome, trace, store0, xw, hist, util>>

\* The first subject whose promise rejected.
FirstRejected == CHOOSE i \in Subjects :
    pc[i] = "rejected" /\ \A j \in Subjects : pc[j] = "rejected" => i <= j

\* deleteDocs(dryrun, db, docs).
deleteDocs(docs) ==
    IF deleteDocs_writes(dryrun)
    THEN /\ personsList' = deleteDocs_docsWithDeleteField(docs)
         /\ phase' = "delete"
         /\ trace' = Append(trace, Event("bulkDocs", 0, NoContact,
                                         deleteDocs_docsWithDeleteField(docs)))
         /\ UNCHANGED outcome
    ELSE /\ phase' = "ended"
         /\ outcome' = Resolved(docs)
         /\ UNCHANGED <<personsList, trace>>

\* Every subject's promise resolved: cleanContactPersons resolves with
\* personsList, and the script's next step, deleteDocs, runs on it.
cleanContactPersons_resolve ==
    /\ phase = "clean"
    /\ \A i \in Subjects : pc[i] = "resolved"
    /\ deleteDocs(personsList)
    /\ UNCHANGED <<store, files, dryrun, pc, mem, written, ret, reason,
                   store0, xw, hist, util>>

\* A subject's promise rejected: cleanContactPersons rejects with its
\* reason, and the script's later steps are skipped.
cleanContactPersons_reject ==
    /\ phase = "clean"
    /\ \E i \in Subjects : pc[i] = "rejected"
    /\ phase' = "ended"
    /\ outcome' = Rejected(reason[FirstRejected])
    /\ UNCHANGED <<store, files, dryrun, personsList, pc, mem, written,
                   ret, reason, trace, store0, xw, hist, util>>

\* db.bulkDocs(docsWithDeleteField) resolves: deleteDocs logs the result
\* and returns it.
deleteDocs_then(ok) ==
    /\ phase = "delete"
    /\ ok \subseteq Ids(personsList)
    /\ store' = bulkDocsStore(store, personsList, ok)
    /\ phase' = "ended"
    /\ outcome' = Resolved(bulkDocsResult(personsList, ok))
    /\ UNCHANGED <<files, dryrun, personsList, pc, mem, written, ret,
                   reason, trace, store0, xw, hist, util>>

\* db.bulkDocs(docsWithDeleteField) rejects.
deleteDocs_reject ==
    /\ phase = "delete"
    /\ phase' = "ended"
    /\ outcome' = Rejected(BulkError)
    /\ UNCHANGED <<store, files, dryrun, personsList, pc, mem, written,
                   ret, reason, trace, store0, xw, hist, util>>

\* ------------------------------------------------------------------- Next
\* The steps of a run of the cascade.
CascadeNext ==
    \/ \E i \in Subjects : isContactFor(i)
    \/ \E i \in Subjects : cleanContactPerson_then(i)
    \/ \E i \in Subjects : isContactFor_catch(i)
    \/ \E i \in Subjects : FsProgress(i)
    \/ \E i \in Subjects : writeDocsToFile_resolve(i)
    \/ \E i \in Subjects : writeDocsToFile_reject(i)
    \/ \E i \in Subjects : \E ok \in SUBSET FacilityIds : removeContact_then(i, ok)
    \/ \E i \in Subjects : cleanContactPerson_catch(i)

\* The steps of one pipeline run.
PipelineNext ==
    \/ \E dry \in BOOLEAN, ids \in DistinctSeqs(LivePersons) : Script(dry, ids)
    \/ FsProgressScript
    \/ writeDocsToFile_resolveScript
    \/ writeDocsToFile_rejectScript
    \/ CascadeNext
    \/ cleanContactPersons_resolve
    \/ cleanContactPersons_reject
    \/ \E ok \in SUBSET PersonIds : deleteDocs_then(ok)
    \/ deleteDocs_reject

Next == PipelineNext

Spec == Init /\ [][Next]_vars

\* =================================================================
\* Runs of the cascade, one after another, on one store and one log
\* directory
\* =================================================================
\* A non-dry run resolved and the store holds every facility as the run's
\* bulk writes sent it: every write was accepted.
RunAccepted ==
    /\ phase = "ended"
    /\ ~dryrun
    /\ outcome.kind = "resolved"
    /\ \A i \in DOMAIN mem : \A k \in DOMAIN mem[i] : store[mem[i][k]._id] = mem[i][k]

\* cleanContactPersons(db, dryrun, logdir, docs) is called as run number
\* run: what the runs before left is noted, and the chain is built.
CascadeRun(run, dry, docs) ==
    /\ hist' = [runs |-> run, store |-> hist.store, files |-> files,
                list |-> personsList, accepted |-> RunAccepted]
    /\ dryrun' = dry
    /\ outcome' = Pending
    /\ store0' = store
    /\ trace' = <<>>
    /\ cleanContactPersons(docs)
    /\ UNCHANGED <<store, files, xw, util>>

\* A script calls cleanContactPersons on the person documents ids.
Cascade(dry, ids) ==
    /\ phase = "idle"
    /\ CascadeRun(1, dry, [i \in DOMAIN ids |-> store[ids[i]]])

\* After the first run has settled (resolved or rejected), the script is
\* run a second time on the same persons: cleanContactPersons is called
\* on their documents again, with the store and the log directory as the
\* first run left them.
Rerun(dry) ==
    /\ phase = "ended"
    /\ hist.runs = 1
    /\ CascadeRun(2, dry, [i \in DOMAIN personsList |-> store[personsList[i]._id]])

\* Every subject's promise resolved: cleanContactPersons resolves with
\* personsList.
cleanContactPersons_then ==
    /\ phase = "clean"
    /\ \A i \in Subjects : pc[i] = "resolved"
    /\ phase' = "ended"
    /\ outcome' = Resolved(personsList)
    /\ UNCHANGED <<store, files, dryrun, personsList, pc, mem, written,
                   ret, reason, trace, store0, xw, hist, util>>

RerunNext ==
    \/ \E dry \in BOOLEAN, ids \in DistinctSeqs(PersonIds) : Cascade(dry, ids)
    \/ \E dry \in BOOLEAN : Rerun(dry)
    \/ CascadeNext
    \/ cleanContactPersons_then
    \/ cleanContactPersons_reject

SpecRerun == Init /\ [][RerunNext]_vars

\* =================================================================
\* State functions the properties are stated with
\* =================================================================

\* The facilities that referenced person p when the run started.
RefsAtStart(p) == {f \in FacilityIds : store0[f].contact = p}

\* The positions of the trace where request op of subject i was issued
\* (subject 0: the script's own snapshot and the tombstone write).
Issued(i, op) == {k \in DOMAIN trace : trace[k].subject = i /\ trace[k].op = op}

\* The id of subject i.
Person(i) == personsList[i]._id

\* The documents of sequence docs, as a set.
DocSet(docs) == {docs[k] : k \in DOMAIN docs}

\* cleanContactPersons has resolved.
CleanResolved ==
    /\ phase \in {"delete", "ended"}
    /\ DOMAIN pc = DOMAIN personsList
    /\ \A i \in Subjects : pc[i] = "resolved"

\* The requests outstanding: issued and not yet answered.
Outstanding ==
    Cardinality({i \in Subjects : pc[i] \in {"query", "write", "bulk"}})
    + (IF phase = "snapshot" THEN 1 ELSE 0) + (IF phase = "delete" THEN 1 ELSE 0)

\* =================================================================
\* C1. Audit before mutate: whenever the bulk write of a subject has been
\* issued, that subject's audit file is completely written and holds the
\* full pre-mutation documents (contact still present) of every facility
\* in the write; and in every state (a crash may happen in any), every
\* facility whose contact the run has cleared in the store has its
\* pre-image in the audit file of the person it referenced.
\* =================================================================
C1_AuditBeforeMutate ==
    /\ \A i \in Subjects :
          (pc[i] = "bulk" \/ Issued(i, "bulkDocs") # {}) =>
             LET file == files[AuditPath(Person(i))]
             IN /\ file.state = "complete"
                /\ Issued(i, "writeFile") # {}
                /\ \A k \in Issued(i, "bulkDocs") : \E w \in Issued(i, "writeFile") : w < k
                /\ \A k \in DOMAIN mem[i] :
                      /\ store0[mem[i][k]._id] \in DocSet(Parse(file.text))
                      /\ store0[mem[i][k]._id].contact = Person(i)
    /\ \A f \in FacilityIds :
          (store0[f].contact # NoContact /\ store[f].contact = NoContact) =>
             LET file == files[AuditPath(store0[f].contact)]
             IN file.state = "complete" /\ store0[f] \in DocSet(Parse(file.text))

\* A crash point of C1: a facility is cleared in the store while the bulk
\* write of a later subject is outstanding.
C1_Witness ==
    /\ \E f \in FacilityIds : store0[f].contact # NoContact /\ store[f].contact = NoContact
    /\ \E i \in Subjects : pc[i] = "bulk"

\* =================================================================
\* C2. Reference before delete: once cleanContactPersons has resolved in
\* a non-dry run, no facility in the store has contact equal to the id of
\* a listed person that some facility referenced, whatever the bulk write
\* reported.
\* =================================================================
C2_ReferenceBeforeDelete ==
    (CleanResolved /\ ~dryrun) =>
        \A i \in Subjects : RefsAtStart(Person(i)) # {} =>
            \A f \in FacilityIds : store[f].contact # Person(i)

\* =================================================================
\* C3. No dangling reference on delete: no person is marked deleted in
\* the store while a facility in the store holds contact equal to its id;
\* and when the cascade fails for a subject no tombstone write is issued.
\* =================================================================
C3_NoDanglingReference ==
    /\ \A p \in PersonIds : store[p]._deleted =>
          \A f \in FacilityIds : store[f].contact # p
    /\ (\E i \in Subjects : pc[i] = "rejected") => Issued(0, "bulkDocs") = {}

\* =================================================================
\* C4 as claimed. Tombstone result: in a non-dry run deleteDocs returns
\* the documents it was passed, with deleted == true.
\* =================================================================
C4_ResultIsDeletedDocs ==
    (~dryrun /\ phase = "ended" /\ outcome.kind = "resolved") =>
        outcome.value = [i \in DOMAIN personsList |->
                            [store0[Person(i)] EXCEPT !._deleted = TRUE]]

\* =================================================================
\* C4 as amended. In a non-dry run deleteDocs hands the store one bulk
\* write holding every document it was passed, each with deleted == true
\* (and the documents in memory carry the marker), and it returns the
\* store's result of that write: one entry per document, in order, with
\* the document's id and whether the store accepted it.
\* =================================================================
C4_TombstoneWriteAndResult ==
    (~dryrun /\ CleanResolved) =>
        /\ Cardinality(Issued(0, "bulkDocs")) = 1
        /\ \A k \in Issued(0, "bulkDocs") :
              /\ Parse(trace[k].body) = [i \in DOMAIN personsList |->
                                          [store0[Person(i)] EXCEPT !._deleted = TRUE]]
              /\ Parse(trace[k].body) = personsList
        /\ (phase = "ended" /\ outcome.kind = "resolved") =>
              /\ DOMAIN outcome.value = DOMAIN personsList
              /\ \A i \in DOMAIN personsList :
                    /\ outcome.value[i].id = Person(i)
                    /\ outcome.value[i].ok = store[Person(i)]._deleted

\* deleteDocs has returned the store's result for a list of two documents,
\* one accepted and one refused.
C4_Witness ==
    /\ ~dryrun /\ phase = "ended" /\ outcome.kind = "resolved"
    /\ Len(personsList) = 2
    /\ outcome.value[1].ok /\ ~outcome.value[2].ok

\* =================================================================
\* C5. Dry run writes nothing: in a dry run no bulk write is ever issued
\* and the store stays as it was when the run started; removeContact
\* returns the person unchanged and deleteDocs returns its input
\* documents unchanged, with no deleted marker.
\* =================================================================
C5_DryRunWritesNothing ==
    (dryrun /\ phase # "idle") =>
        /\ store = store0
        /\ \A k \in DOMAIN trace : trace[k].op # "bulkDocs"
        /\ phase # "delete"
        /\ \A i \in Subjects :
              /\ pc[i] # "bulk"
              /\ ret[i].kind = "value" => ret[i].value = store0[Person(i)]
              /\ (pc[i] = "resolved" /\ RefsAtStart(Person(i)) # {}) => ret[i].kind = "value"
        /\ (phase = "ended" /\ CleanResolved) =>
              outcome = Resolved([i \in DOMAIN personsList |-> store0[Person(i)]])

\* A dry run has ended after removeContact ran for a referenced person.
C5_Witness ==
    /\ dryrun /\ phase = "ended" /\ outcome.kind = "resolved"
    /\ \E i \in Subjects : ret[i].kind = "value" /\ Cardinality(RefsAtStart(Person(i))) = 2

\* =================================================================
\* C6. Dry run is fully observable. The queries and audit writes a run
\* issues, and the audit files it leaves, are those ExpectedReads gives
\* from the list and the store at the start alone: so a dry run and a
\* non-dry run from the same store on the same list issue the same
\* queries and write the same audit files with the same contents, as far
\* as each of them gets (a run aborted by a failed step stops short).
\* =================================================================

\* The facility documents that referenced person p at the start, in id order.
DocsAtStart(p) == [k \in DOMAIN InIdOrder(RefsAtStart(p)) |-> store0[InIdOrder(RefsAtStart(p))[k]]]

\* The query and audit write of subject i.
ExpectedReads(i) ==
    <<Event("query", i, Person(i), <<>>)>> \o
    (IF RefsAtStart(Person(i)) = {} THEN <<>>
     ELSE <<Event("writeFile", i, AuditPath(Person(i)), DocsAtStart(Person(i)))>>)

RECURSIVE ExpectedUpTo(_)
ExpectedUpTo(n) == IF n = 0 THEN <<>> ELSE ExpectedUpTo(n - 1) \o ExpectedReads(n)

IsRead(e) == e.subject # 0 /\ e.op \in {"query", "writeFile"}

Reads == SelectSeq(trace, IsRead)

IsPrefix(a, b) == Len(a) <= Len(b) /\ SubSeq(b, 1, Len(a)) = a

C6_DryRunObservable ==
    phase \in {"clean", "delete", "ended"} =>
        /\ IsPrefix(Reads, ExpectedUpTo(Len(personsList)))
        /\ \A i \in Subjects : pc[i] = "resolved" =>
              /\ IsPrefix(ExpectedUpTo(i), Reads)
              /\ files[AuditPath(Person(i))] =
                    IF RefsAtStart(Person(i)) = {} THEN NoFile
                    ELSE [state |-> "complete", text |-> Stringify(DocsAtStart(Person(i)))]
        /\ CleanResolved => Reads = ExpectedUpTo(Len(personsList))

\* A dry run has resolved for two subjects, each with an audit file.
C6_Witness ==
    /\ dryrun /\ CleanResolved /\ Len(personsList) = 2
    /\ \A i \in Subjects : files[AuditPath(Person(i))].state = "complete"

\* The same for a non-dry run.
C6_WitnessReal ==
    /\ ~dryrun /\ CleanResolved /\ Len(personsList) = 2
    /\ \A i \in Subjects : files[AuditPath(Person(i))].state = "complete"

\* =================================================================
\* C7. Strictly sequential subjects: at most one store request or file
\* write is outstanding at any moment; no step of a subject is issued
\* before the previous subject's promise has resolved; so in the trace
\* every request of subject i precedes every request of subject i+1.
\* =================================================================
C7_StrictlySequential ==
    /\ Outstanding <= 1
    /\ \A i \in Subjects : (i > 1 /\ pc[i] # "chained") => pc[i - 1] = "resolved"
    /\ \A a, b \in DOMAIN trace :
          (trace[a].subject # 0 /\ trace[b].subject # 0
             /\ trace[a].subject < trace[b].subject) => a < b

\* The second subject's bulk write is outstanding.
C7_Witness == \E i \in Subjects : i > 1 /\ pc[i] = "bulk"

\* =================================================================
\* C8. Fail-fast abort: when the query, the audit write or the bulk write
\* of subject k fails, no request is ever issued for a later subject nor
\* for the tombstone write, no request of subject k is issued twice, and
\* cleanContactPersons rejects with the reason the failed step rejected
\* with.
\* =================================================================

\* The request of subject k issued last.
LastOp(k) == trace[CHOOSE a \in DOMAIN trace :
                     /\ trace[a].subject = k
                     /\ \A b \in DOMAIN trace : trace[b].subject = k => b <= a].op

\* What the step that issued request op of subject k rejects with.
StepReason(k, op) ==
    CASE op = "query" -> QueryError
      [] op = "writeFile" -> writeDocsToFile_reason(AuditPath(Person(k)), IOError)
      [] op = "bulkDocs" -> BulkError

C8_FailFast ==
    \A k \in Subjects : pc[k] = "rejected" =>
        /\ \A j \in Subjects : j > k =>
              /\ pc[j] = "chained"
              /\ \A a \in DOMAIN trace : trace[a].subject # j
        /\ Issued(0, "bulkDocs") = {}
        /\ phase \in {"clean", "ended"}
        /\ \A op \in {"query", "writeFile", "bulkDocs"} : Cardinality(Issued(k, op)) <= 1
        /\ reason[k] = StepReason(k, LastOp(k))
        /\ phase = "ended" => outcome = Rejected(reason[k])

\* The run has ended on the failure of a subject that was not the last.
C8_Witness ==
    /\ phase = "ended"
    /\ \E k \in Subjects : pc[k] = "rejected" /\ k < Len(pc)

\* =================================================================
\* C9. Snapshot failure blocks the mutation: when the audit write of a
\* subject has failed, no bulk write is issued for that subject and the
\* store holds its facilities as they were, contact intact.
\* =================================================================
C9_SnapshotFailureBlocks ==
    \A i \in Subjects :
        reason[i] = writeDocsToFile_reason(AuditPath(Person(i)), IOError) =>
            /\ Issued(i, "bulkDocs") = {}
            /\ pc[i] = "rejected"
            /\ \A f \in RefsAtStart(Person(i)) :
                  store[f] = store0[f] /\ store[f].contact = Person(i)

\* The run has ended on a failed audit write.
C9_Witness ==
    /\ phase = "ended"
    /\ \E i \in Subjects :
          /\ reason[i] = writeDocsToFile_reason(AuditPath(Person(i)), IOError)
          /\ RefsAtStart(Person(i)) # {}

\* =================================================================
\* C10. Empty no-op: writeDocsToFile on an empty list issues no file
\* write and leaves the file absent; and for a person no facility
\* references, cleanContactPerson issues no audit write and no bulk
\* write and leaves no audit file, in dry and in non-dry runs.
\* =================================================================
C10_EmptyNoOp ==
    /\ (phase # "idle" /\ Len(personsList) = 0) =>
          /\ files[OtherPath] = NoFile
          /\ Issued(0, "writeFile") = {}
          /\ phase # "snapshot"
    /\ \A i \in Subjects : RefsAtStart(Person(i)) = {} =>
          /\ files[AuditPath(Person(i))] = NoFile
          /\ Issued(i, "writeFile") = {} /\ Issued(i, "bulkDocs") = {}
          /\ pc[i] \in {"chained", "query", "resolved", "rejected"}
          /\ pc[i] = "resolved" => ret[i] = Undefined

\* A non-dry run has resolved a person that no facility references.
C10_Witness ==
    /\ ~dryrun
    /\ \E i \in Subjects : pc[i] = "resolved" /\ RefsAtStart(Person(i)) = {}

\* A run on an empty list has ended.
C10_WitnessEmptyList == phase = "ended" /\ Len(personsList) = 0

\* =================================================================
\* The utility functions, each called on its own
\* =================================================================
\* Timestamps are 0..MaxTime; a list passed to a filter has at most
\* MaxDocs documents.
MaxTime == 3
MaxDocs == 2

Timestamps == 0..MaxTime

\* The values doc.reported_date can have: a number, or undefined when the
\* document has no such field.
ReportedDates == {Undefined} \cup {Value(t) : t \in Timestamps}

\* A data record: its _id is its place in the list it is passed in.
DataRecord(id, d) == [_id |-> id, reported_date |-> d]

\* The lists of data records of at most n documents.
DataRecordLists(n) ==
    UNION {{[i \in 1..k |-> DataRecord(i, d[i])] : d \in [1..k -> ReportedDates]} : k \in 0..n}

\* JavaScript's truthiness of a value that is a number or undefined:
\* undefined and 0 are falsy.
Truthy(v) == v.kind = "value" /\ v.value # 0

\* filterByDate(docsList, startTimestamp, endTimestamp): _.filter keeps,
\* in order, the documents for which
\*   doc.reported_date && doc.reported_date >= start && doc.reported_date < end
\* is truthy.
filterByDate(docsList, startTimestamp, endTimestamp) ==
    SelectSeq(docsList, LAMBDA doc :
        /\ Truthy(doc.reported_date)
        /\ doc.reported_date.value >= startTimestamp
        /\ doc.reported_date.value < endTimestamp)

\* A script calls filterByDate.
filterByDate_call(docsList, startTimestamp, endTimestamp) ==
    /\ util.op = "none"
    /\ util' = [op |-> "filterByDate",
                docsList |-> docsList,
                startTimestamp |-> startTimestamp,
                endTimestamp |-> endTimestamp,
                result |-> filterByDate(docsList, startTimestamp, endTimestamp)]
    /\ UNCHANGED <<runVars, hist>>

\* ------------------------------------------- the functions that can fail
\* The branches (places) a script is run for.
BranchIds == {<<"B", 1>>}

\* The functions whose store call or file write can fail, by the step that
\* fails; cleanContactPerson fails in isContactFor, in writeDocsToFile or
\* in removeContact's bulk write.
BranchOps == {"getContactsForPlace", "getDataRecordsForBranch", "fetchBranchInfo"}
PersonOps == {"isContactFor", "cleanContactPerson:isContactFor",
              "cleanContactPerson:writeDocsToFile", "cleanContactPerson:removeContact",
              "deleteDocs"}
FailingOps == BranchOps \cup PersonOps

\* The ids function op is called for: a branch id, or a person's id (for
\* deleteDocs, the id of the document to delete).
KeysOf(op) == IF op \in BranchOps THEN BranchIds ELSE PersonIds

\* console.log(text + key), or console.log(text) with key NoContact.
LogLine(text, key) == [text |-> text, key |-> key]

\* console.log(err): the error; the reason writeDocsToFile rejects with
\* holds the path, and so the person id.
LogError(op, key) ==
    IF op = "cleanContactPerson:writeDocsToFile"
    THEN LogLine("Couldn't write to file", key)
    ELSE LogLine("err", NoContact)

\* The catch handlers a failure of op passes before it reaches the caller,
\* as the lines they log. deleteDocs, getContactsForPlace and
\* getDataRecordsForBranch have no catch handler.
CatchLog(op, key) ==
    CASE op = "fetchBranchInfo" -> <<LogLine("Couldnt find branch ", key)>>
      [] op = "isContactFor" ->
            <<LogLine("Error in isContactFor ", key), LogError(op, key)>>
      [] op = "cleanContactPerson:isContactFor" ->
            <<LogLine("Error in isContactFor ", key), LogError(op, key),
              LogLine("Error when removing contact ", key), LogError(op, key)>>
      [] op \in {"cleanContactPerson:writeDocsToFile", "cleanContactPerson:removeContact"} ->
            <<LogLine("Error when removing contact ", key), LogError(op, key)>>
      [] OTHER -> <<>>

\* A script calls function op for key: the store call or file write that
\* can fail is issued.
FailingOp_call(op, key) ==
    /\ util.op = "none"
    /\ util' = [op |-> op, key |-> key, state |-> "pending", log |-> <<>>]
    /\ UNCHANGED <<runVars, hist>>

\* The call or write fails: the rejection passes the catch handlers and
\* reaches the caller.
FailingOp_reject ==
    /\ util.op \in FailingOps
    /\ util.state = "pending"
    /\ util' = [util EXCEPT !.state = "rejected",
                            !.log = util.log \o CatchLog(util.op, util.key)]
    /\ UNCHANGED <<runVars, hist>>

\* The call or write succeeds.
FailingOp_resolve ==
    /\ util.op \in FailingOps
    /\ util.state = "pending"
    /\ util' = [util EXCEPT !.state = "resolved"]
    /\ UNCHANGED <<runVars, hist>>

\* ------------------------------------------------------------ userConfirm
\* A line the user types has at most MaxInputLen characters.
MaxInputLen == 3

\* The characters a line is made of: those of "yes" and "no", and another.
Chars == {"y", "e", "s", "n", "o", "x"}

\* The lines the user can type; <<>> is the blank line.
Lines == UNION {[1..n -> Chars] : n \in 0..MaxInputLen}

\* The string 'yes'.
Yes == <<"y", "e", "s">>

\* Word w is in the language of y[es]*, and of n[o]?.
Matches_y_es(w) == Len(w) >= 1 /\ w[1] = "y" /\ \A k \in 2..Len(w) : w[k] \in {"e", "s"}
Matches_n_o(w) == w = <<"n">> \/ w = <<"n", "o">>

\* validator: /y[es]*|n[o]?/ tested on the value; the pattern has no
\* anchors, so it matches when some part of the value is in its language.
validator(value) ==
    \E a \in 1..Len(value) : \E b \in a..Len(value) :
        Matches_y_es(SubSeq(value, a, b)) \/ Matches_n_o(SubSeq(value, a, b))

\* default: 'yes': the value prompt takes for a blank line.
ValueOf(line) == IF line = <<>> THEN Yes ELSE line

\* The test of the callback: result.yesno !== 'yes' exits.
userConfirm_proceeds(yesno) == yesno = Yes

\* userConfirm(message): the message is logged and prompt.get is called.
userConfirm_call ==
    /\ util.op = "none"
    /\ util' = [op |-> "userConfirm", state |-> "prompting", line |-> <<>>,
                err |-> FALSE, warned |-> FALSE]
    /\ UNCHANGED <<runVars, hist>>

\* The user types a line. A value the validator refuses is answered with
\* the warning and asked again; otherwise the callback runs with the value
\* and either resolves the promise or exits the process.
prompt_line(line) ==
    /\ util.op = "userConfirm"
    /\ util.state = "prompting"
    /\ util' = IF ~validator(ValueOf(line))
               THEN [util EXCEPT !.warned = TRUE]
               ELSE [util EXCEPT !.line = line,
                                 !.state = IF userConfirm_proceeds(ValueOf(line))
                                           THEN "resolved" ELSE "exited"]
    /\ UNCHANGED <<runVars, hist>>

\* The input channel fails: the callback runs with err, logs it and exits
\* the process.
prompt_error ==
    /\ util.op = "userConfirm"
    /\ util.state = "prompting"
    /\ util' = [util EXCEPT !.err = TRUE, !.state = "exited"]
    /\ UNCHANGED <<runVars, hist>>

UtilNext ==
    \/ \E docsList \in DataRecordLists(MaxDocs), startTimestamp, endTimestamp \in Timestamps :
          filterByDate_call(docsList, startTimestamp, endTimestamp)
    \/ \E op \in FailingOps : \E key \in KeysOf(op) : FailingOp_call(op, key)
    \/ FailingOp_reject
    \/ FailingOp_resolve
    \/ userConfirm_call
    \/ \E line \in Lines : prompt_line(line)
    \/ prompt_error

SpecUtil == Init /\ [][UtilNext]_vars

\* ---------------------------------------------------------------- C11
\* Whether document doc has a reported date d with start <= d < end.
InPeriod(doc, start, end) ==
    /\ doc.reported_date.kind = "value"
    /\ start <= doc.reported_date.value
    /\ doc.reported_date.value < end

\* C11: for start < end (start = 0 included), filterByDate returns exactly
\* the documents that have a reported date d with start <= d < end, in
\* input order.
C11_HalfOpenInterval ==
    (util.op = "filterByDate" /\ util.startTimestamp < util.endTimestamp) =>
        util.result = SelectSeq(util.docsList, LAMBDA doc :
                          InPeriod(doc, util.startTimestamp, util.endTimestamp))

\* C11 (the part that holds): the same for the documents whose reported
\* date is not 0.
C11_HalfOpenIntervalAfterEpoch ==
    (util.op = "filterByDate" /\ util.startTimestamp < util.endTimestamp) =>
        util.result = SelectSeq(util.docsList, LAMBDA doc :
                          /\ InPeriod(doc, util.startTimestamp, util.endTimestamp)
                          /\ doc.reported_date.value # 0)

\* ---------------------------------------------------------------- C12
\* Some bulk write issued so far holds document doc.
SentInBulk(doc) ==
    \E k \in DOMAIN trace :
        /\ trace[k].op = "bulkDocs"
        /\ \E n \in DOMAIN Parse(trace[k].body) : Parse(trace[k].body)[n] = doc

\* C12: no step removes a document id from the store; a document changes
\* only by being rewritten through a bulk write, and then only in a
\* facility's contact, which is removed, and in the deleted marker, which
\* is set to true.
C12_NoPhysicalErase ==
    [][\A id \in DOMAIN store :
          /\ id \in DOMAIN store'
          /\ store'[id]._id = id
          /\ store'[id].type = store[id].type
          /\ store'[id].contact # store[id].contact =>
                store[id].type = "facility" /\ store'[id].contact = NoContact
          /\ store'[id]._deleted # store[id]._deleted => store'[id]._deleted
          /\ store'[id] # store[id] => SentInBulk(store'[id])]_vars

\* A run in which a facility lost its contact and a person was deleted.
C12_Witness ==
    /\ phase = "ended"
    /\ \E f \in FacilityIds : store[f].contact # store0[f].contact
    /\ \E p \in PersonIds : store[p]._deleted /\ ~store0[p]._deleted

\* ---------------------------------------------------------------- C13
\* The log names the id the failed call was for.
KeyLogged == \E k \in DOMAIN util.log : util.log[k].key = util.key

\* C13: whenever a store read, a store write or an audit-file write of a
\* pipeline function has failed, a log line naming the person id or branch
\* id concerned was emitted before the error reached the caller.
C13_FailureLogged ==
    (util.op \in FailingOps /\ util.state = "rejected") => KeyLogged

\* C13 (the part that holds): the same for fetchBranchInfo, isContactFor
\* and cleanContactPerson, the functions that have a catch handler.
C13_FailureLoggedWhereCaught ==
    (/\ util.op \in FailingOps
     /\ util.op \notin {"deleteDocs", "getContactsForPlace", "getDataRecordsForBranch"}
     /\ util.state = "rejected") => KeyLogged

\* ---------------------------------------------------------------- C14
\* The audit file of subject i is completely written and holds the
\* facilities that referenced the subject, as they were before the contact
\* field was cleared.
AuditFileHoldsRefs(i) ==
    files[AuditPath(Person(i))] =
        [state |-> "complete", text |-> Stringify(DocsAtStart(Person(i)))]

\* C14 (as stated): after cleanContactPersons has resolved, the audit file
\* of each listed person exists if and only if the person had at least one
\* referencing facility, and then holds exactly those facilities as they
\* were before the contact field was cleared.
C14_AuditFileIffReferenced ==
    CleanResolved =>
        \A i \in Subjects :
            /\ files[AuditPath(Person(i))].state # "absent" <=> RefsAtStart(Person(i)) # {}
            /\ RefsAtStart(Person(i)) # {} => AuditFileHoldsRefs(i)

\* C14 (amended): after cleanContactPersons has resolved, the audit file
\* of each listed person that had a referencing facility exists and holds
\* exactly those facilities as they were before the contact field was
\* cleared; for a person that had none the run wrote nothing, so the file
\* is as it was before the run: absent, or what an earlier run left.
C14_AuditFilePerSubject ==
    CleanResolved =>
        \A i \in Subjects :
            IF RefsAtStart(Person(i)) # {}
            THEN AuditFileHoldsRefs(i)
            ELSE files[AuditPath(Person(i))] = hist.files[AuditPath(Person(i))]

\* A second run has resolved in which one person had no referencing
\* facility left, its file being the first run's, and another person had
\* one.
C14_Witness ==
    /\ hist.runs = 2
    /\ CleanResolved
    /\ \E i \in Subjects :
          /\ RefsAtStart(Person(i)) = {}
          /\ files[AuditPath(Person(i))].state = "complete"
    /\ \E i \in Subjects : RefsAtStart(Person(i)) # {} /\ AuditFileHoldsRefs(i)

\* ---------------------------------------------------------------- C15
\* The bulk writes the cascade issued (the tombstone write is subject 0's).
CascadeBulkWrites == {k \in DOMAIN trace : trace[k].op = "bulkDocs" /\ trace[k].subject # 0}

\* The listed subjects that had at least one referencing facility.
ReferencedSubjects == {i \in Subjects : RefsAtStart(Person(i)) # {}}

\* The facilities that referenced person p, each without its contact.
ClearedDocsAtStart(p) ==
    [k \in DOMAIN DocsAtStart(p) |->
        [_id |-> DocsAtStart(p)[k]._id, type |-> DocsAtStart(p)[k].type,
         contact |-> NoContact, _deleted |-> DocsAtStart(p)[k]._deleted]]

\* C15: once cleanContactPersons has resolved in a non-dry run, it has
\* issued as many bulk writes as there are subjects with a referencing
\* facility: one per such subject, holding exactly that subject's
\* referencing facilities with the contact field cleared, and none for
\* the other subjects.
C15_OneBulkWritePerSubject ==
    (CleanResolved /\ ~dryrun) =>
        /\ Cardinality(CascadeBulkWrites) = Cardinality(ReferencedSubjects)
        /\ \A i \in Subjects :
              IF i \in ReferencedSubjects
              THEN /\ Cardinality(Issued(i, "bulkDocs")) = 1
                   /\ \A k \in Issued(i, "bulkDocs") :
                         /\ trace[k].key = Person(i)
                         /\ Parse(trace[k].body) = ClearedDocsAtStart(Person(i))
              ELSE Issued(i, "bulkDocs") = {}

\* A non-dry run has resolved on two persons, one with two referencing
\* facilities and one with none.
C15_Witness ==
    /\ CleanResolved /\ ~dryrun
    /\ \E i \in Subjects : Cardinality(RefsAtStart(Person(i))) = 2
    /\ \E i \in Subjects : RefsAtStart(Person(i)) = {}

\* A non-dry run has resolved on two persons with one facility each.
C15_WitnessTwoWrites ==
    /\ CleanResolved /\ ~dryrun
    /\ Cardinality(ReferencedSubjects) = 2

\* ---------------------------------------------------------------- C16
\* The affirmative responses: 'yes', its abbreviations, and blank input.
Affirmative(line) == line \in {<<>>, <<"y">>, <<"y", "e">>, <<"y", "e", "s">>}

\* The negative responses: 'no' and its abbreviation.
Negative(line) == line \in {<<"n">>, <<"n", "o">>}

\* userConfirm has been answered by a line the validator took, or by an
\* error of the input channel.
Answered == util.op = "userConfirm" /\ util.state # "prompting"

\* C16: userConfirm resolves for every affirmative response ('yes', an
\* abbreviation such as 'y', blank input), and for a negative response or
\* an input-channel error it exits the process with its promise neither
\* resolved nor rejected.
C16_ConfirmationGate ==
    Answered =>
        /\ (~util.err /\ Affirmative(util.line)) => util.state = "resolved"
        /\ (util.err \/ Negative(util.line)) => util.state = "exited"

\* C16 (the part that holds): userConfirm resolves exactly for 'yes' and
\* for blank input; for any other value the validator takes and for an
\* input-channel error it exits the process.
C16_ConfirmationGateExact ==
    Answered =>
        /\ util.state \in {"resolved", "exited"}
        /\ util.state = "resolved" <=> (~util.err /\ util.line \in {<<>>, Yes})

\* ---------------------------------------------------------------- C17
\* Every store call and every file write eventually completes or fails,
\* and a callback that can run eventually runs (the event loop): a step
\* of the run that stays possible is eventually taken.
Fairness == WF_vars(Next)

SpecLive == Spec /\ Fairness

\* cleanContactPersons has settled: resolved after every subject was
\* processed, or rejected with the reason of the first failing subject,
\* no later subject having been started.
CleanSettled ==
    \/ CleanResolved
    \/ /\ phase = "ended"
       /\ \E i \in Subjects :
             /\ pc[i] = "rejected"
             /\ outcome = Rejected(reason[i])
             /\ \A j \in Subjects : (j < i => pc[j] = "resolved") /\ (j > i => pc[j] = "chained")

\* C17: once cleanContactPersons is called, it eventually settles,
\* provided every store call and file write completes or fails.
C17_CascadeTerminates == (phase = "clean") ~> CleanSettled

\* A run on two persons rejected at the second one.
C17_Witness ==
    /\ CleanSettled
    /\ Len(personsList) = 2
    /\ pc[1] = "resolved" /\ pc[2] = "rejected"

\* ---------------------------------------------------------------- C18
\* The facilities whose contact, person p, the runs so far have cleared
\* in the store.
ClearedOf(p) ==
    {f \in FacilityIds : hist.store[f].contact = p /\ store[f].contact = NoContact}

\* C18: in every state of a run or re-run over the same log directory,
\* every facility whose contact the pipeline has cleared in the store has
\* its pre-mutation image in the audit file of the person it referenced.
C18_PreImageSurvives ==
    \A p \in PersonIds : \A f \in ClearedOf(p) :
        /\ files[AuditPath(p)].state = "complete"
        /\ hist.store[f] \in DocSet(Parse(files[AuditPath(p)].text))

\* C18 (the part that holds): the same in the first run over a log
\* directory.
C18_PreImageInFirstRun == hist.runs = 1 => C18_PreImageSurvives

\* ---------------------------------------------------------------- C19
\* Document doc without its contact field.
WithoutContact(doc) ==
    [_id |-> doc._id, type |-> doc.type, contact |-> NoContact, _deleted |-> doc._deleted]

\* C19: every document a bulk write of cleanContactPersons holds is a
\* facility whose contact is the id of the listed person the write is for,
\* and is the stored document without its contact field; a facility that
\* differs from what the store held when the run started referenced a
\* listed person and differs only by the contact field; and until
\* cleanContactPersons has settled and the tombstone write is answered,
\* no non-facility document has changed.
C19_CascadeFrame ==
    /\ \A k \in CascadeBulkWrites : \A n \in DOMAIN Parse(trace[k].body) :
          LET doc == Parse(trace[k].body)[n]
          IN /\ doc._id \in FacilityIds
             /\ store0[doc._id].contact = Person(trace[k].subject)
             /\ doc = WithoutContact(store0[doc._id])
    /\ \A f \in FacilityIds :
          store[f] # store0[f] =>
             /\ store0[f].contact \in Ids(personsList)
             /\ store[f] = WithoutContact(store0[f])
    /\ phase \in {"clean", "delete"} => \A p \in PersonIds : store[p] = store0[p]

\* cleanContactPersons has resolved in a run that cleared a facility and
\* left alone a facility referencing a person not in the list.
C19_Witness ==
    /\ CleanResolved
    /\ Len(personsList) > 0
    /\ \E f \in FacilityIds : store[f] # store0[f]
    /\ \E f \in FacilityIds :
          /\ store0[f].contact # NoContact
          /\ store0[f].contact \notin Ids(personsList)
          /\ store[f] = store0[f]

\* ---------------------------------------------------------------- C20
\* This is the second run, on the list of the first, and the first was a
\* non-dry run that resolved with every facility write accepted.
SecondRunAfterCleanFirst ==
    /\ hist.runs = 2
    /\ hist.accepted
    /\ Ids(hist.list) = Ids(personsList)

\* C20: a second run of cleanContactPersons on the same list, after a
\* non-dry first run that resolved with every facility write accepted,
\* issues no bulk write and no file write, and leaves the store and the
\* audit files as the first run left them.
C20_CascadeIdempotent ==
    SecondRunAfterCleanFirst =>
        /\ \A k \in DOMAIN trace : trace[k].op = "query"
        /\ store = store0
        /\ files = hist.files

\* Such a second run has resolved, the first one having cleared a
\* facility and written its audit file.
C20_Witness ==
    /\ SecondRunAfterCleanFirst
    /\ CleanResolved
    /\ \E i \in Subjects :
          /\ ClearedOf(Person(i)) # {}
          /\ files[AuditPath(Person(i))].state = "complete"

====
